---- MODULE Spec2Model ----
(***************************************************************************)
(* Model of transform_content.py: the ContentParser (an HTMLParser         *)
(* subclass that buckets tokens into heading text and body content and     *)
(* emits one section record per heading boundary) and the recursive        *)
(* transform_content_fields walk over a JSON value tree.                   *)
(*                                                                         *)
(* Strings are sequences of one-character strings.  Markup written back    *)
(* into the content ("<b", ">", "</b>", an attribute pair) is a sequence   *)
(* of atoms that are not whitespace.                                       *)
(***************************************************************************)
EXTENDS Integers, Sequences, FiniteSets, TLC

VARIABLES parser, pc, html, result, fresh, calls, origin, cur, doc, out, out2, mem

vars == <<parser, pc, html, result, fresh, calls, origin, cur, doc, out, out2, mem>>

(***************************************************************************)
(* Bounds of the model                                                     *)
(***************************************************************************)
MaxTokens == 5
MaxCallTokens == 2
MaxCalls == 2
MaxStrLen == 5
MaxNodes == 4

(***************************************************************************)
(* String helpers (Python str semantics)                                   *)
(***************************************************************************)
None == <<"None">>
NoneType == "None"

Whitespace == {" ", "\n", "\t"}

RECURSIVE LStrip(_)
LStrip(s) ==
    IF s = <<>> THEN s
    ELSE IF Head(s) \in Whitespace THEN LStrip(Tail(s)) ELSE s

RECURSIVE RStrip(_)
RStrip(s) ==
    IF s = <<>> THEN s
    ELSE IF s[Len(s)] \in Whitespace THEN RStrip(SubSeq(s, 1, Len(s) - 1)) ELSE s

Strip(s) == RStrip(LStrip(s))

RECURSIVE Join(_)
Join(parts) ==
    IF parts = <<>> THEN <<>> ELSE Head(parts) \o Join(Tail(parts))

\* end of the maximal whitespace run that starts right after position i
RECURSIVE RunEnd(_, _)
RunEnd(s, i) ==
    IF i < Len(s) /\ s[i + 1] \in Whitespace THEN RunEnd(s, i + 1) ELSE i

\* last newline in s[i+1 .. e], or i when there is none
LastNewline(s, i, e) ==
    LET c == {j \in (i + 1)..e : s[j] = "\n"}
    IN  IF c = {} THEN i ELSE CHOOSE j \in c : \A k \in c : k <= j

\* re.sub(r'\n\s*\n+', '\n\n', s), scanning from position i
RECURSIVE SubNewlinesFrom(_, _)
SubNewlinesFrom(s, i) ==
    IF i > Len(s) THEN <<>>
    ELSE IF s[i] = "\n" /\ LastNewline(s, i, RunEnd(s, i)) > i
         THEN <<"\n", "\n">> \o SubNewlinesFrom(s, LastNewline(s, i, RunEnd(s, i)) + 1)
         ELSE <<s[i]>> \o SubNewlinesFrom(s, i + 1)

\* only newlines that follow one another directly are collapsed
RECURSIVE SubNewlines_AdjacentOnly(_)
SubNewlines_AdjacentOnly(s) ==
    IF s = <<>> THEN <<>>
    ELSE IF Len(s) > 2 /\ s[1] = "\n" /\ s[2] = "\n" /\ s[3] = "\n"
    THEN SubNewlines_AdjacentOnly(Tail(s))
    ELSE <<Head(s)>> \o SubNewlines_AdjacentOnly(Tail(s))

SubNewlines(s) == SubNewlinesFrom(s, 1)

\* the space-collapsing pass left out
SubSpaces_NoCollapse(s) == s

\* re.sub(r' +', ' ', s)
RECURSIVE SubSpaces(_)
SubSpaces(s) ==
    IF s = <<>> THEN <<>>
    ELSE IF Head(s) = " " /\ Len(s) > 1 /\ s[2] = " " THEN SubSpaces(Tail(s))
    ELSE <<Head(s)>> \o SubSpaces(Tail(s))

Description(current_content) ==
    Strip(SubSpaces(SubNewlines(Strip(Join(current_content)))))

(***************************************************************************)
(* ContentParser                                                           *)
(***************************************************************************)
HeadingTags == {"h1", "h2", "h3", "h4", "h5", "h6"}
preserve_tags == {"b", "strong", "i", "em", "a", "sup", "sub"}

\* state after ContentParser.__init__
NewParser ==
    [sections |-> <<>>,
     current_heading |-> None,
     current_heading_type |-> NoneType,
     current_content |-> <<>>,
     in_heading |-> FALSE,
     tag_stack |-> <<>>,
     rawdata |-> <<>>,
     raised |-> FALSE]

Truthy(s) == s # None /\ s # <<>>

\* the guard of the end of the pass used inside _save_section
SaveGuard_NotNone(p) == p.current_heading # None \/ p.current_content # <<>>

SaveGuard(p) == Truthy(p.current_heading) \/ p.current_content # <<>>

\* another default for the heading type of a section without a heading
SectionRecord_DefaultDiv(p) ==
    [headingType |-> IF p.current_heading_type # NoneType
                     THEN p.current_heading_type ELSE "div",
     section |-> IF Truthy(p.current_heading) THEN Strip(p.current_heading) ELSE <<>>,
     description |-> Description(p.current_content)]

SectionRecord(p) ==
    [headingType |-> IF p.current_heading_type # NoneType
                     THEN p.current_heading_type ELSE "p",
     section |-> IF Truthy(p.current_heading) THEN Strip(p.current_heading) ELSE <<>>,
     description |-> Description(p.current_content)]

\* the record inserted at the front of sections instead of appended
SaveSection_Prepend(p) ==
    [p EXCEPT !.sections = IF SaveGuard(p) THEN <<SectionRecord(p)>> \o @ ELSE @,
              !.current_heading = None,
              !.current_heading_type = NoneType,
              !.current_content = <<>>]

SaveSection(p) ==
    [p EXCEPT !.sections = IF SaveGuard(p) THEN Append(@, SectionRecord(p)) ELSE @,
              !.current_heading = None,
              !.current_heading_type = NoneType,
              !.current_content = <<>>]

StartGuard(p) == p.current_heading # None

RECURSIVE AttrsStr(_)
AttrsStr(attrs) ==
    IF attrs = <<>> THEN <<>>
    ELSE IF Len(attrs) = 1 THEN Head(attrs)
    ELSE Head(attrs) \o <<" ">> \o AttrsStr(Tail(attrs))

StartMarkup(tag, attrs) ==
    IF AttrsStr(attrs) # <<>>
    THEN <<"<" \o tag, " ">> \o AttrsStr(attrs) \o <<">">>
    ELSE <<"<" \o tag, ">">>

EndMarkup(tag) == <<"</" \o tag \o ">">>

\* a structural start tag separates the text around it by a space
HandleStarttag_StructuralSpace(p, tag, attrs) ==
    IF tag \in HeadingTags
    THEN LET q == IF StartGuard(p) THEN SaveSection(p) ELSE p
         IN  [q EXCEPT !.current_heading_type = tag,
                       !.current_heading = <<>>,
                       !.in_heading = TRUE]
    ELSE IF tag \in preserve_tags
    THEN [p EXCEPT !.current_content = Append(@, StartMarkup(tag, attrs)),
                   !.tag_stack = Append(@, tag)]
    ELSE IF tag = "br"
    THEN [p EXCEPT !.current_content = Append(@, <<"\n">>)]
    ELSE [p EXCEPT !.current_content = Append(@, <<" ">>)]

HandleStarttag(p, tag, attrs) ==
    IF tag \in HeadingTags
    THEN LET q == IF StartGuard(p) THEN SaveSection(p) ELSE p
         IN  [q EXCEPT !.current_heading_type = tag,
                       !.current_heading = <<>>,
                       !.in_heading = TRUE]
    ELSE IF tag \in preserve_tags
    THEN [p EXCEPT !.current_content = Append(@, StartMarkup(tag, attrs)),
                   !.tag_stack = Append(@, tag)]
    ELSE IF tag = "br"
    THEN [p EXCEPT !.current_content = Append(@, <<"\n">>)]
    ELSE p

\* the closing tag is emitted for whatever tag is on top of the stack
HandleEndtag_NoTopCheck(p, tag) ==
    IF tag \in HeadingTags
    THEN [p EXCEPT !.in_heading = FALSE]
    ELSE IF tag \in preserve_tags
    THEN IF p.tag_stack # <<>>
         THEN [p EXCEPT !.current_content = Append(@, EndMarkup(tag)),
                        !.tag_stack = SubSeq(@, 1, Len(@) - 1)]
         ELSE p
    ELSE p

\* a heading end tag leaves heading mode only when it has the level of the
\* heading that is open
HandleEndtag_MatchingLevel(p, tag) ==
    IF tag \in HeadingTags
    THEN IF tag = p.current_heading_type THEN [p EXCEPT !.in_heading = FALSE] ELSE p
    ELSE IF tag \in preserve_tags
    THEN IF p.tag_stack # <<>> /\ p.tag_stack[Len(p.tag_stack)] = tag
         THEN [p EXCEPT !.current_content = Append(@, EndMarkup(tag)),
                        !.tag_stack = SubSeq(@, 1, Len(@) - 1)]
         ELSE p
    ELSE p

HandleEndtag(p, tag) ==
    IF tag \in HeadingTags
    THEN [p EXCEPT !.in_heading = FALSE]
    ELSE IF tag \in preserve_tags
    THEN IF p.tag_stack # <<>> /\ p.tag_stack[Len(p.tag_stack)] = tag
         THEN [p EXCEPT !.current_content = Append(@, EndMarkup(tag)),
                        !.tag_stack = SubSeq(@, 1, Len(@) - 1)]
         ELSE p
    ELSE p

\* str += on None raises TypeError
DataRaises(p) == p.in_heading /\ p.current_heading = None

HandleData(p, data) ==
    IF p.in_heading
    THEN IF DataRaises(p)
         THEN [p EXCEPT !.raised = TRUE]
         ELSE [p EXCEPT !.current_heading = @ \o data]
    ELSE [p EXCEPT !.current_content = Append(@, data)]

(***************************************************************************)
(* Tokens: what HTMLParser.goahead hands to the handlers.  rawdata is the  *)
(* tokenizer's buffer of input not yet consumed.                           *)
(***************************************************************************)
StartTok(tag, attrs) == [kind |-> "start", tag |-> tag, attrs |-> attrs, data |-> <<>>]
EndTok(tag) == [kind |-> "end", tag |-> tag, attrs |-> <<>>, data |-> <<>>]
DataTok(data) == [kind |-> "data", tag |-> "", attrs |-> <<>>, data |-> data]

\* f'{k}="{v}"'
Attr(k, v) == <<k \o "=\"" \o v \o "\"">>

\* not html_content or not html_content.strip()
IsBlank(h) ==
    \A i \in 1..Len(h) : h[i].kind = "data" /\ Strip(h[i].data) = <<>>

\* rawdata = rawdata + data: text at the seam becomes one run of text
Feed(p, h) ==
    LET r == p.rawdata
    IN  IF r # <<>> /\ h # <<>> /\ r[Len(r)].kind = "data" /\ Head(h).kind = "data"
        THEN [p EXCEPT !.rawdata = SubSeq(r, 1, Len(r) - 1)
                                   \o <<DataTok(r[Len(r)].data \o Head(h).data)>>
                                   \o Tail(h)]
        ELSE [p EXCEPT !.rawdata = r \o h]

\* text with an "&" that is followed by neither whitespace nor ";" may be a
\* character reference cut in half
Held(data) ==
    LET amps == {i \in 1..Len(data) : data[i] = "&"}
    IN  /\ amps # {}
        /\ LET amppos == CHOOSE i \in amps : \A j \in amps : j <= i
           IN  \A j \in amppos..Len(data) : data[j] \notin Whitespace \cup {";"}

\* goahead(end = False) can consume the token at the head of rawdata
CanStep(p) ==
    /\ ~p.raised
    /\ p.rawdata # <<>>
    /\ ~(Head(p.rawdata).kind = "data" /\ Len(p.rawdata) = 1 /\ Held(Head(p.rawdata).data))

\* one iteration of goahead: consume the head token and call its handler
GoaheadStep(p) ==
    LET t == Head(p.rawdata)
        q == [p EXCEPT !.rawdata = Tail(@)]
    IN  IF t.kind = "start" THEN HandleStarttag(q, t.tag, t.attrs)
        ELSE IF t.kind = "end" THEN HandleEndtag(q, t.tag)
        ELSE HandleData(q, t.data)

RECURSIVE Goahead(_)
Goahead(p) == IF CanStep(p) THEN Goahead(GoaheadStep(p)) ELSE p

\* the assignments at the head of parse_content
ResetFields(p) ==
    [p EXCEPT !.sections = <<>>,
              !.current_heading = None,
              !.current_heading_type = NoneType,
              !.current_content = <<>>,
              !.in_heading = FALSE,
              !.tag_stack = <<>>]

EndGuard(p) == p.current_heading # None \/ p.current_content # <<>>

\* "Save the last section"
SaveLast(p) == IF EndGuard(p) THEN SaveSection(p) ELSE p

\* the fields reset before the empty-input test instead of after it
ParseContent_ResetFirst(p, h) ==
    IF IsBlank(h)
    THEN [parser |-> ResetFields(p), result |-> <<>>, raised |-> FALSE]
    ELSE LET q == Goahead(Feed(ResetFields(p), h))
             r == IF q.raised THEN q ELSE SaveLast(q)
         IN  [parser |-> [r EXCEPT !.raised = FALSE],
              result |-> IF q.raised THEN <<>> ELSE r.sections,
              raised |-> q.raised]

\* parse_content as one call: the parser afterwards and the returned list
ParseContent(p, h) ==
    IF IsBlank(h)
    THEN [parser |-> p, result |-> <<>>, raised |-> FALSE]
    ELSE LET q == Goahead(Feed(ResetFields(p), h))
             r == IF q.raised THEN q ELSE SaveLast(q)
         IN  [parser |-> [r EXCEPT !.raised = FALSE],
              result |-> IF q.raised THEN <<>> ELSE r.sections,
              raised |-> q.raised]

(***************************************************************************)
(* Inputs of the token-level specification                                 *)
(***************************************************************************)
\* the alphabets the inputs are written in: heading levels; heading text,
\* whitespace and text held back by the tokenizer; preserved inline tags;
\* inline tags and br across a section boundary; structural tags
Alphabets ==
    {{StartTok("h1", <<>>), StartTok("h2", <<>>), EndTok("h1"), EndTok("h2"), DataTok(<<"x">>)},
     {StartTok("h1", <<>>), EndTok("h1"), DataTok(<<"x">>), DataTok(<<" ">>), DataTok(<<"&">>)},
     {StartTok("b", <<>>), EndTok("b"), StartTok("a", <<Attr("href", "u")>>), EndTok("a"), DataTok(<<"x">>)},
     {StartTok("h1", <<>>), StartTok("b", <<>>), EndTok("b"), StartTok("br", <<>>), DataTok(<<"x">>)},
     {StartTok("p", <<>>), EndTok("p"), StartTok("h1", <<>>), EndTok("h1"), DataTok(<<"x">>)}}

\* the alphabet of the call-level specification
CallAlphabet ==
    {StartTok("h1", <<>>), EndTok("h1"), StartTok("b", <<>>), EndTok("b"),
     DataTok(<<"x">>), DataTok(<<"&">>)}

\* a run of text is one token
NoAdjacentData(h) ==
    \A i \in 1..(Len(h) - 1) : ~(h[i].kind = "data" /\ h[i + 1].kind = "data")

SeqsUpTo(S, n) == UNION {[1..k -> S] : k \in 0..n}

\* the inputs of at most n tokens over one of the alphabets
InputsUpTo(n) ==
    {h \in UNION {SeqsUpTo(A, n) : A \in Alphabets} : NoAdjacentData(h)}

\* the inputs of at most n tokens of the call-level specification
CallInputsUpTo(n) == {h \in SeqsUpTo(CallAlphabet, n) : NoAdjacentData(h)}

\* the empty string and whitespace-only strings
BlankInputs == {<<>>} \cup {<<DataTok(d)>> : d \in {<<" ">>, <<"\n", " ">>}}

NoDoc == [t |-> "null", s |-> <<>>, keys |-> <<>>, kids |-> <<>>]

(***************************************************************************)
(* Token-level specification: one parser instance, one handler call per    *)
(* step.  origin and cur are history variables: cur is the position in     *)
(* html of the heading start tag that opened the pending section (0 when   *)
(* none did) and origin[k] is that position for the k-th emitted record.   *)
(***************************************************************************)
\* the list objects: heap[i] is the content of list i, self the list bound
\* to self.sections, returned the lists handed to callers so far; __init__
\* binds self.sections to a new empty list
NewMem == [heap |-> <<<<>>>>, self |-> 1, returned |-> <<>>]

Init ==
    /\ parser = NewParser
    /\ pc = "idle"
    /\ html = <<>>
    /\ result = <<>>
    /\ fresh = <<>>
    /\ calls = 0
    /\ origin = <<>>
    /\ cur = 0
    /\ doc = NoDoc
    /\ out = NoDoc
    /\ out2 = NoDoc
    /\ mem = NewMem

\* parse_content on empty or whitespace-only input: the early return
ParseEmpty ==
    /\ pc \in {"idle", "done"}
    /\ \E h \in BlankInputs :
          /\ html' = h
          /\ parser' = ParseContent(parser, h).parser
          /\ result' = ParseContent(parser, h).result
    /\ pc' = "done"
    /\ UNCHANGED <<fresh, calls, origin, cur, doc, out, out2, mem>>

\* parse_content up to and including self.feed's append to rawdata
ParseBegin ==
    /\ pc = "idle"
    /\ calls = 0
    /\ \E h \in InputsUpTo(MaxTokens) :
          /\ ~IsBlank(h)
          /\ html' = h
          /\ parser' = Feed(ResetFields(parser), h)
    /\ pc' = "feed"
    /\ calls' = calls + 1
    /\ UNCHANGED <<result, fresh, origin, cur, doc, out, out2, mem>>

\* position in html of the token at the head of rawdata
Pos == Len(html) - Len(parser.rawdata) + 1

\* the history variables after the head token has been handled
Track(q) ==
    /\ origin' = IF Len(q.sections) > Len(parser.sections)
                 THEN Append(origin, cur) ELSE origin
    /\ cur' = IF Head(parser.rawdata).kind = "start" /\ Head(parser.rawdata).tag \in HeadingTags
              THEN Pos ELSE cur

\* goahead finds a start tag: handle_starttag
StartTagStep ==
    /\ pc = "feed"
    /\ CanStep(parser)
    /\ Head(parser.rawdata).kind = "start"
    /\ parser' = GoaheadStep(parser)
    /\ Track(GoaheadStep(parser))
    /\ UNCHANGED <<pc, html, result, fresh, calls, doc, out, out2, mem>>

\* goahead finds an end tag: handle_endtag
EndTagStep ==
    /\ pc = "feed"
    /\ CanStep(parser)
    /\ Head(parser.rawdata).kind = "end"
    /\ parser' = GoaheadStep(parser)
    /\ Track(GoaheadStep(parser))
    /\ UNCHANGED <<pc, html, result, fresh, calls, doc, out, out2, mem>>

\* goahead finds text: handle_data; a TypeError ends the call
DataStep ==
    /\ pc = "feed"
    /\ CanStep(parser)
    /\ Head(parser.rawdata).kind = "data"
    /\ parser' = [GoaheadStep(parser) EXCEPT !.raised = FALSE]
    /\ pc' = IF GoaheadStep(parser).raised THEN "raised" ELSE "feed"
    /\ Track(GoaheadStep(parser))
    /\ UNCHANGED <<html, result, fresh, calls, doc, out, out2, mem>>

\* goahead has stopped: save the last section and return self.sections
ParseEnd ==
    /\ pc = "feed"
    /\ ~CanStep(parser)
    /\ parser' = SaveLast(parser)
    /\ result' = SaveLast(parser).sections
    /\ origin' = IF Len(SaveLast(parser).sections) > Len(parser.sections)
                 THEN Append(origin, cur) ELSE origin
    /\ pc' = "done"
    /\ UNCHANGED <<html, fresh, calls, cur, doc, out, out2, mem>>

Next ==
    \/ ParseEmpty
    \/ ParseBegin
    \/ StartTagStep
    \/ EndTagStep
    \/ DataStep
    \/ ParseEnd

Spec == Init /\ [][Next]_vars

(***************************************************************************)
(* Call-level specification: a sequence of parse_content calls on one      *)
(* reused instance; fresh is what a newly constructed instance returns     *)
(* for the same input.                                                     *)
(***************************************************************************)
ParseCall ==
    /\ calls < MaxCalls
    /\ \E h \in CallInputsUpTo(MaxCallTokens) :
          LET r == ParseContent(parser, h)
          IN  /\ html' = h
              /\ parser' = r.parser
              /\ result' = r.result
              /\ fresh' = ParseContent(NewParser, h).result
    /\ pc' = "returned"
    /\ calls' = calls + 1
    /\ UNCHANGED <<origin, cur, doc, out, out2, mem>>

NextCalls == ParseCall

SpecCalls == Init /\ [][NextCalls]_vars

(***************************************************************************)
(* Calls on one instance, with the section lists as objects                *)
(***************************************************************************)
AliasAlphabet ==
    {StartTok("h1", <<>>), EndTok("h1"), DataTok(<<"x">>), DataTok(<<" ">>),
     DataTok(<<"&">>)}

AliasInputsUpTo(n) == {h \in SeqsUpTo(AliasAlphabet, n) : NoAdjacentData(h)}

\* return []: a new empty list goes to the caller
ReturnNewList(m) ==
    [m EXCEPT !.heap = Append(@, <<>>),
              !.returned = Append(@, Len(m.heap) + 1)]

\* the list of self.sections is emptied where it is
RebindSections_ClearInPlace(m) == [m EXCEPT !.heap[m.self] = <<>>]

\* self.sections = []: the name is bound to a new empty list
RebindSections(m) ==
    [m EXCEPT !.heap = Append(@, <<>>), !.self = Len(m.heap) + 1]

\* self.sections.append(...) during the pass, then return self.sections
AppendAndReturn(m, sections, raised) ==
    [m EXCEPT !.heap[m.self] = sections,
              !.returned = IF raised THEN @ ELSE Append(@, m.self)]

\* one parse_content call, the lists followed as objects
AliasCall ==
    /\ calls < MaxCalls
    /\ \E h \in AliasInputsUpTo(MaxCallTokens) :
          LET r == ParseContent(parser, h)
          IN  /\ html' = h
              /\ parser' = r.parser
              /\ result' = r.result
              /\ mem' = IF IsBlank(h) THEN ReturnNewList(mem)
                        ELSE AppendAndReturn(RebindSections(mem),
                                             r.parser.sections, r.raised)
    /\ pc' = "returned"
    /\ calls' = calls + 1
    /\ UNCHANGED <<fresh, origin, cur, doc, out, out2>>

NextAlias == AliasCall

SpecAlias == Init /\ [][NextAlias]_vars

(***************************************************************************)
(* Normalisation specification: one run of text is handed to handle_data   *)
(* and the section is saved.                                               *)
(***************************************************************************)
\* the non-empty texts of at most n characters
TextsUpTo(n) == SeqsUpTo({"x", " ", "\n", "\t"}, n) \ {<<>>}

NormData ==
    /\ pc = "idle"
    /\ \E s \in TextsUpTo(MaxStrLen) :
          /\ html' = <<DataTok(s)>>
          /\ parser' = HandleData(ResetFields(parser), s)
    /\ pc' = "feed"
    /\ UNCHANGED <<result, fresh, calls, origin, cur, doc, out, out2, mem>>

NextNorm == NormData \/ ParseEnd

SpecNorm == Init /\ [][NextNorm]_vars

(***************************************************************************)
(* JSON value trees and transform_content_fields.  A value is a record     *)
(* [t, s, keys, kids]: t is its type, s the text of a string (as the       *)
(* tokens its markup consists of), keys the keys of an object in insertion *)
(* order and kids the values of an object or the items of a list.          *)
(***************************************************************************)
JStr(h) == [t |-> "str", s |-> h, keys |-> <<>>, kids |-> <<>>]
JNum == [t |-> "num", s |-> <<>>, keys |-> <<>>, kids |-> <<>>]
JNull == NoDoc
JList(items) == [t |-> "list", s |-> <<>>, keys |-> <<>>, kids |-> items]
JObj(ks, vs) == [t |-> "obj", s |-> <<>>, keys |-> ks, kids |-> vs]

\* a str produced by the parser, as the text of a JSON string
Text(c) == IF c = <<>> THEN <<>> ELSE <<DataTok(c)>>

\* the record with its body text under the key "content"
SectionValue_ContentKey(rec) ==
    JObj(<<"headingType", "section", "content">>,
         <<JStr(Text(<<rec.headingType>>)), JStr(Text(rec.section)), JStr(Text(rec.description))>>)

SectionValue(rec) ==
    JObj(<<"headingType", "section", "description">>,
         <<JStr(Text(<<rec.headingType>>)), JStr(Text(rec.section)), JStr(Text(rec.description))>>)

\* sections if sections else []
SectionsValue(sections) ==
    IF sections # <<>>
    THEN JList([i \in 1..Len(sections) |-> SectionValue(sections[i])])
    ELSE JList(<<>>)

\* the key test left out
IsContentField_AnyKey(key, value) == value.t = "str"

\* the isinstance test left out
IsContentField_AnyType(key, value) == key = "content"

\* key == 'content' and isinstance(value, str)
IsContentField(key, value) == key = "content" /\ value.t = "str"

RECURSIVE TransformContentFields(_, _)
RECURSIVE TransformDict(_, _, _, _, _)
RECURSIVE TransformList(_, _, _)

\* for key, value in obj.items(): new_obj[key] = ...
TransformDict(ks, vs, p, new_keys, new_vals) ==
    IF ks = <<>> THEN [keys |-> new_keys, kids |-> new_vals, parser |-> p]
    ELSE IF IsContentField(Head(ks), Head(vs))
    THEN LET r == ParseContent(p, Head(vs).s)
         IN  TransformDict(Tail(ks), Tail(vs), r.parser,
                           Append(new_keys, Head(ks)), Append(new_vals, SectionsValue(r.result)))
    ELSE LET r == TransformContentFields(Head(vs), p)
         IN  TransformDict(Tail(ks), Tail(vs), r.parser,
                           Append(new_keys, Head(ks)), Append(new_vals, r.val))

\* [transform_content_fields(item, parser) for item in obj]
TransformList(items, p, new_items) ==
    IF items = <<>> THEN [kids |-> new_items, parser |-> p]
    ELSE LET r == TransformContentFields(Head(items), p)
         IN  TransformList(Tail(items), r.parser, Append(new_items, r.val))

\* the rewritten value and the parser afterwards
TransformContentFields(obj, p) ==
    IF obj.t = "obj"
    THEN LET r == TransformDict(obj.keys, obj.kids, p, <<>>, <<>>)
         IN  [val |-> JObj(r.keys, r.kids), parser |-> r.parser]
    ELSE IF obj.t = "list"
    THEN LET r == TransformList(obj.kids, p, <<>>)
         IN  [val |-> JList(r.kids), parser |-> r.parser]
    ELSE [val |-> obj, parser |-> p]

(***************************************************************************)
(* Walk specification: a JSON document is rewritten with a new parser,     *)
(* and the output is rewritten once more (the script rewrites its files in *)
(* place, so a second run reads the output of the first).                  *)
(***************************************************************************)
\* a whitespace-only string, markup with a heading, text the tokenizer holds back
DocStrings ==
    {<<DataTok(<<" ">>)>>, <<StartTok("h1", <<>>), DataTok(<<"x">>)>>, <<DataTok(<<"&">>)>>}

\* strings and the scalars that are not strings (number, boolean, null take
\* the same branch of the walk)
Leaves == {JStr(h) : h \in DocStrings} \cup {JNum, JNull}

\* key sequences of an object with n fields: the keys of a dict are distinct
KeySeqs(n) ==
    {ks \in [1..n -> {"content", "title"}] : \A i, j \in 1..n : i # j => ks[i] # ks[j]}

RECURSIVE TreesExact(_)
RECURSIVE Forests(_)

\* sequences of values with n nodes in total
Forests(n) ==
    IF n = 0 THEN {<<>>}
    ELSE UNION {{<<v>> \o f : v \in TreesExact(k), f \in Forests(n - k)} : k \in 1..n}

\* values with exactly n nodes
TreesExact(n) ==
    IF n = 1 THEN Leaves \cup {JList(<<>>), JObj(<<>>, <<>>)}
    ELSE {JList(f) : f \in Forests(n - 1)}
         \cup UNION {{JObj(ks, f) : ks \in KeySeqs(Len(f))} : f \in Forests(n - 1)}

\* the documents of at most n nodes
DocsUpTo(n) == UNION {TreesExact(k) : k \in 1..n}

InitWalk ==
    /\ parser = NewParser
    /\ pc = "idle"
    /\ html = <<>>
    /\ result = <<>>
    /\ fresh = <<>>
    /\ calls = 0
    /\ origin = <<>>
    /\ cur = 0
    /\ doc \in DocsUpTo(MaxNodes)
    /\ out = NoDoc
    /\ out2 = NoDoc
    /\ mem = NewMem

\* transform_json_file: parser = ContentParser(); transform_content_fields(data, parser)
TransformJson ==
    /\ pc = "idle"
    /\ LET r == TransformContentFields(doc, NewParser)
       IN  /\ out' = r.val
           /\ parser' = r.parser
    /\ pc' = "walked"
    /\ UNCHANGED <<html, result, fresh, calls, origin, cur, doc, out2, mem>>

\* transform_json_file on the file written by the first run
TransformAgain ==
    /\ pc = "walked"
    /\ LET r == TransformContentFields(out, NewParser)
       IN  /\ out2' = r.val
           /\ parser' = r.parser
    /\ pc' = "rewalked"
    /\ UNCHANGED <<html, result, fresh, calls, origin, cur, doc, out, mem>>

NextWalk == TransformJson \/ TransformAgain

SpecWalk == InitWalk /\ [][NextWalk]_vars

(***************************************************************************)
(* Properties of the parser                                                *)
(***************************************************************************)
Chars(str) == {str[i] : i \in 1..Len(str)}

HeadStarts(h) == {i \in 1..Len(h) : h[i].kind = "start" /\ h[i].tag \in HeadingTags}

\* non-empty text content appears before the first heading start tag
HasLeadingText(h) ==
    \E n \in HeadStarts(h) : \E i \in 1..(n - 1) :
        /\ HeadStarts(h) \cap 1..i = {}
        /\ h[i].kind = "data"
        /\ Strip(h[i].data) # <<>>

\* C1: when non-empty text precedes the first heading start tag, the returned
\* list starts with a record of headingType "p" and empty section text that
\* holds the leading content, ahead of the first heading's record.
C1_LeadingContentOwnRecord ==
    (pc = "done" /\ HasLeadingText(html)) =>
        /\ Len(result) >= 1
        /\ result[1].headingType = "p"
        /\ result[1].section = <<>>

\* data token j is body text between the end tag of the heading opened at s
\* and the next heading start tag n
BodyBetween(h, s, j, n) ==
    /\ s \in HeadStarts(h) /\ n \in HeadStarts(h)
    /\ s < j /\ j < n
    /\ HeadStarts(h) \cap (s + 1)..(n - 1) = {}
    /\ h[j].kind = "data"
    /\ \E e \in (s + 1)..(j - 1) : h[e] = EndTok(h[s].tag)

Example == <<StartTok("h1", <<>>), DataTok(<<"A">>), EndTok("h1"), DataTok(<<"f", "i", "r", "s", "t">>),
             StartTok("h2", <<>>), DataTok(<<"B">>), EndTok("h2"), DataTok(<<"s", "e", "c", "o", "n", "d">>)>>

ExampleSections ==
    <<[headingType |-> "h1", section |-> <<"A">>, description |-> <<"f", "i", "r", "s", "t">>],
      [headingType |-> "h2", section |-> <<"B">>, description |-> <<"s", "e", "c", "o", "n", "d">>]>>

\* C2: the records are in the document order of the heading start tags that
\* introduced them, none twice, each with its heading's level; body text
\* between heading k's end tag and the next heading start tag is in the
\* description of heading k's record and in no other record; the two-heading
\* example gives exactly its two records.
C2_DocumentOrder ==
    /\ (pc = "feed" \/ (pc = "done" /\ ~IsBlank(html))) =>
          /\ Len(origin) = Len(parser.sections)
          /\ \A k \in 1..Len(origin) :
                /\ origin[k] \in HeadStarts(html) \cup {0}
                /\ parser.sections[k].headingType =
                      IF origin[k] = 0 THEN "p" ELSE html[origin[k]].tag
                /\ \A l \in (k + 1)..Len(origin) : origin[k] < origin[l]
    /\ (pc = "done" /\ ~IsBlank(html)) =>
          \A s, j, n \in 1..Len(html) :
             BodyBetween(html, s, j, n) =>
                \A c \in Chars(html[j].data) \ Whitespace :
                   /\ \E r \in 1..Len(result) :
                         origin[r] = s /\ c \in Chars(result[r].description)
                   /\ \A r \in 1..Len(result) :
                         (origin[r] # s /\ c \in Chars(result[r].description \o result[r].section))
                            => \E i \in 1..Len(html) :
                                  i # j /\ html[i].kind = "data" /\ c \in Chars(html[i].data)
    /\ pc = "idle" => ParseContent(NewParser, Example).result = ExampleSections

C2_Witness ==
    /\ pc = "done"
    /\ Len(result) = 2
    /\ \E s, j, n \in 1..Len(html) :
          /\ BodyBetween(html, s, j, n)
          /\ Strip(html[j].data) # <<>>
          /\ origin = <<s, n>>

\* C4: a finalize appends a record only if the trimmed heading text is
\* non-empty or the accumulated content is non-empty.
C4_EmissionGuard ==
    [][Len(parser'.sections) = Len(parser.sections) + 1 =>
          \/ (parser.current_heading # None /\ Strip(parser.current_heading) # <<>>)
          \/ parser.current_content # <<>>]_vars

\* C7: no handler step raises, and in every reachable state in_heading
\* implies that current_heading is a string, not None.
C7_InHeadingHasString ==
    /\ pc # "raised"
    /\ parser.in_heading => parser.current_heading # None

NoRun(str, c, n) ==
    \A i \in 1..(Len(str) - n + 1) : \E k \in 0..(n - 1) : str[i + k] # c

\* C9: the description of every emitted record has no two consecutive
\* spaces, no three consecutive newlines and no leading or trailing
\* whitespace.
C9_DescriptionNormalized ==
    \A k \in 1..Len(parser.sections) :
       LET d == parser.sections[k].description
       IN  /\ NoRun(d, " ", 2)
           /\ NoRun(d, "\n", 3)
           /\ d # <<>> => (d[1] \notin Whitespace /\ d[Len(d)] \notin Whitespace)

C9_Witness ==
    /\ pc = "done"
    /\ html = <<DataTok(<<" ", "x", " ", " ", "x">>)>>
    /\ result = <<[headingType |-> "p", section |-> <<>>, description |-> <<"x", " ", "x">>]>>

\* C3: every call on the reused instance returns what a newly constructed
\* instance returns for the same input.
C3_CallIsolation == result = fresh

(***************************************************************************)
(* Properties of the walk                                                  *)
(***************************************************************************)
\* C5: the second rewrite returns its input, the output of the first.
C5_Idempotent == pc = "rewalked" => out2 = out

C5_Witness ==
    /\ pc = "rewalked"
    /\ doc = JObj(<<"content">>, <<JStr(<<StartTok("h1", <<>>), DataTok(<<"x">>)>>)>>)
    /\ out = JObj(<<"content">>,
                  <<JList(<<JObj(<<"headingType", "section", "description">>,
                                 <<JStr(<<DataTok(<<"h1">>)>>), JStr(<<DataTok(<<"x">>)>>), JStr(<<>>)>>)>>)>>)

RECURSIVE HasContentString(_)
\* some field keyed "content" at or below v holds a string
HasContentString(v) ==
    \E i \in 1..Len(v.kids) :
        \/ (v.t = "obj" /\ v.keys[i] = "content" /\ v.kids[i].t = "str")
        \/ HasContentString(v.kids[i])

RECURSIVE Untouched(_, _)
Untouched(v, w) ==
    /\ w.t = v.t
    /\ Len(w.kids) = Len(v.kids)
    /\ \A i \in 1..Len(v.kids) :
          IF v.t = "obj" /\ v.keys[i] = "content"
          THEN v.kids[i].t # "str" => w.kids[i] = v.kids[i]
          ELSE Untouched(v.kids[i], w.kids[i])

\* C6 as stated: a non-string value under a "content" key is identical in
\* the output, whatever it contains.
C6_NonStringContentUntouched == pc = "walked" => Untouched(doc, out)

RECURSIVE Rewritten(_, _)
Rewritten(v, w) ==
    /\ w.t = v.t
    /\ Len(w.kids) = Len(v.kids)
    /\ \A i \in 1..Len(v.kids) :
          IF v.t = "obj" /\ v.keys[i] = "content" /\ v.kids[i].t = "str"
          THEN TRUE
          ELSE /\ Rewritten(v.kids[i], w.kids[i])
               /\ HasContentString(v.kids[i]) \/ w.kids[i] = v.kids[i]

\* C6 amended: a non-string value under a "content" key is never replaced by
\* a section list; it keeps its type and is rewritten recursively like any
\* other value, so it is identical to the input unless a string-valued
\* "content" field lies below it.
C6_NonStringContentRewritten == pc = "walked" => Rewritten(doc, out)

C6_Witness ==
    /\ pc = "walked"
    /\ doc = JObj(<<"content">>, <<JObj(<<"content">>, <<JStr(<<StartTok("h1", <<>>), DataTok(<<"x">>)>>)>>)>>)
    /\ out.kids[1].t = "obj"
    /\ out.kids[1].kids[1].t = "list"

RECURSIVE SameFrame(_, _)
SameFrame(v, w) ==
    IF v.t \in {"obj", "list"}
    THEN /\ w.t = v.t
         /\ w.keys = v.keys
         /\ Len(w.kids) = Len(v.kids)
         /\ \A i \in 1..Len(v.kids) :
               (v.t = "obj" /\ v.keys[i] = "content" /\ v.kids[i].t = "str")
                  \/ SameFrame(v.kids[i], w.kids[i])
    ELSE w = v

\* C8: the output has the keys of the input in the same order and lists of
\* the same length, and every number, boolean, null and every string that
\* is not the direct value of a "content" key is unchanged.
C8_OnlyContentStringsChange == pc \in {"walked", "rewalked"} => SameFrame(doc, out)

C8_Witness ==
    /\ pc = "walked"
    /\ doc = JObj(<<"title", "content">>,
                  <<JStr(<<StartTok("h1", <<>>), DataTok(<<"x">>)>>),
                    JStr(<<StartTok("h1", <<>>), DataTok(<<"x">>)>>)>>)
    /\ out.kids[1] = doc.kids[1]
    /\ out.kids[2].t = "list"
    /\ Len(out.kids[2].kids) = 1

RECURSIVE ContentIsList(_, _)
ContentIsList(v, w) ==
    /\ w.keys = v.keys
    /\ Len(w.kids) = Len(v.kids)
    /\ \A i \in 1..Len(v.kids) :
          IF v.t = "obj" /\ v.keys[i] = "content" /\ v.kids[i].t = "str"
          THEN /\ w.kids[i].t = "list"
               /\ IsBlank(v.kids[i].s) => w.kids[i] = JList(<<>>)
          ELSE ContentIsList(v.kids[i], w.kids[i])

\* C10: on empty or whitespace-only input parse_content returns the empty
\* list and leaves the parser, its tokenizer buffer included, as it was; a
\* string under a "content" key is always replaced by a list under the same
\* key, the empty list when the string is empty or whitespace-only.
C10_EmptyInput ==
    /\ \A h \in BlankInputs :
          /\ ParseContent(parser, h).parser = parser
          /\ ParseContent(parser, h).result = <<>>
    /\ pc = "walked" => ContentIsList(doc, out)

C10_Witness ==
    /\ pc = "walked"
    /\ parser.sections # <<>>
    /\ doc = JObj(<<"content", "title">>,
                  <<JStr(<<StartTok("h1", <<>>), DataTok(<<"x">>)>>),
                    JObj(<<"content">>, <<JStr(<<DataTok(<<" ">>)>>)>>)>>)
    /\ out.kids[2].kids[1] = JList(<<>>)

(***************************************************************************)
(* Properties of the records and of the handlers                           *)
(***************************************************************************)
\* C11: every emitted record has exactly the keys headingType, section and
\* description; headingType is one of h1..h6 and p, it is "p" exactly when
\* no heading start tag introduced the record's section, and then section
\* is the empty string.
C11_RecordShape ==
    (pc = "feed" \/ (pc = "done" /\ ~IsBlank(html))) =>
        \A k \in 1..Len(parser.sections) :
           LET rec == parser.sections[k]
           IN  /\ DOMAIN rec = {"headingType", "section", "description"}
               /\ rec.headingType \in {"h1", "h2", "h3", "h4", "h5", "h6", "p"}
               /\ rec.headingType = "p" <=> origin[k] = 0
               /\ origin[k] = 0 => rec.section = <<>>

C11_Witness ==
    /\ pc = "done"
    /\ html = <<StartTok("p", <<>>), DataTok(<<"x">>), EndTok("p")>>
    /\ origin = <<0>>
    /\ result = <<[headingType |-> "p", section |-> <<>>, description |-> <<"x">>]>>

\* the head token of the unparsed input is consumed by this step
Consumed(kind) ==
    /\ pc = "feed"
    /\ pc' = "feed"
    /\ parser.rawdata # <<>>
    /\ Head(parser.rawdata).kind = kind
    /\ parser'.rawdata = Tail(parser.rawdata)

\* the text of this step goes to the heading buffer (toHeading) or is
\* appended to the content parts
Routed(toHeading) ==
    LET data == Head(parser.rawdata).data
    IN  IF toHeading
        THEN /\ parser'.current_heading = parser.current_heading \o data
             /\ parser'.current_content = parser.current_content
        ELSE /\ parser'.current_content = Append(parser.current_content, data)
             /\ parser'.current_heading = parser.current_heading

\* the level of the heading left open by the first n tokens of h when only
\* the end tag of that level closes it
RECURSIVE OpenHeading(_, _)
OpenHeading(h, n) ==
    IF n = 0 THEN NoneType
    ELSE IF h[n].kind = "start" /\ h[n].tag \in HeadingTags THEN h[n].tag
    ELSE IF h[n].kind = "end" /\ h[n].tag = OpenHeading(h, n - 1) THEN NoneType
    ELSE OpenHeading(h, n - 1)

\* whether the last heading tag among the first n tokens of h is a start tag
RECURSIVE LastHeadingTagIsStart(_, _)
LastHeadingTagIsStart(h, n) ==
    IF n = 0 THEN FALSE
    ELSE IF h[n].kind \in {"start", "end"} /\ h[n].tag \in HeadingTags
    THEN h[n].kind = "start"
    ELSE LastHeadingTagIsStart(h, n - 1)

\* C12 (as stated): after a heading start tag of level k, text goes to the
\* heading buffer until the end tag of level k (or a new heading start);
\* a heading end tag of another level, or one seen while no heading is
\* open, does not change where text goes.
C12_MatchingEndTag ==
    [][Consumed("data") => Routed(OpenHeading(html, Pos - 1) # NoneType)]_vars

\* C12 (amended): after a heading start tag, text goes to the heading buffer
\* until a heading end tag of any level (or a new heading start), and from
\* then on to the content parts; a heading end tag seen while no heading is
\* open does not change where text goes.
C12_AnyHeadingEndTag ==
    [][Consumed("data") => Routed(LastHeadingTagIsStart(html, Pos - 1))]_vars

C12_Witness ==
    /\ pc = "feed"
    /\ Len(html) >= 3
    /\ SubSeq(html, 1, 3) = <<StartTok("h1", <<>>), EndTok("h2"), DataTok(<<"x">>)>>
    /\ Pos = 4
    /\ parser.current_heading = <<>>
    /\ parser.current_content = <<<<"x">>>>

\* the preserved start tags among the first n tokens of h whose closing tag
\* has not been emitted, oldest first
RECURSIVE Unclosed(_, _)
Unclosed(h, n) ==
    IF n = 0 THEN <<>>
    ELSE LET open == Unclosed(h, n - 1)
         IN  IF h[n].tag \notin preserve_tags THEN open
             ELSE IF h[n].kind = "start" THEN Append(open, h[n].tag)
             ELSE IF h[n].kind = "end" /\ open # <<>> /\ open[Len(open)] = h[n].tag
             THEN SubSeq(open, 1, Len(open) - 1)
             ELSE open

\* the end tag consumed by this step closes the top of the stack, or
\* changes neither the content parts nor the stack
EndRule ==
    LET tag == Head(parser.rawdata).tag
        top == Len(parser.tag_stack)
    IN  IF parser.tag_stack # <<>> /\ parser.tag_stack[top] = tag
        THEN /\ parser'.current_content =
                    Append(parser.current_content, <<"</" \o tag \o ">">>)
             /\ parser'.tag_stack = SubSeq(parser.tag_stack, 1, top - 1)
        ELSE /\ parser'.current_content = parser.current_content
             /\ parser'.tag_stack = parser.tag_stack

PerSectionInitial(p) ==
    /\ p.current_heading = None
    /\ p.current_heading_type = NoneType
    /\ p.current_content = <<>>
    /\ p.in_heading = FALSE

\* C14: after every finalize, at the end of the pass or on a heading start
\* tag, whether it emitted or discarded the pending section, heading text
\* and heading type are unset, the content parts are empty and the
\* inHeading flag is false.
C14_FinalizeResets ==
    [][/\ (pc = "feed" /\ pc' = "done" /\ EndGuard(parser))
            => PerSectionInitial(parser')
       /\ (/\ Consumed("start")
           /\ Head(parser.rawdata).tag \in HeadingTags
           /\ StartGuard(parser))
            => PerSectionInitial(SaveSection(parser))]_vars

\* the newlines of s[i .. e]
Newlines(s, i, e) == {j \in i..e : s[j] = "\n"}

FirstOf(c) == CHOOSE j \in c : \A k \in c : j <= k

LastOf(c) == CHOOSE j \in c : \A k \in c : k <= j

\* s from position i on, where every maximal whitespace run with two or more
\* newlines is replaced: as a whole by two newlines (whole), or from its
\* first newline to its last newline by two newlines
RECURSIVE CollapseRuns(_, _, _)
CollapseRuns(s, i, whole) ==
    IF i > Len(s) THEN <<>>
    ELSE IF s[i] \notin Whitespace THEN <<s[i]>> \o CollapseRuns(s, i + 1, whole)
    ELSE LET e == RunEnd(s, i)
             c == Newlines(s, i, e)
         IN  (IF Cardinality(c) < 2 THEN SubSeq(s, i, e)
              ELSE IF whole THEN <<"\n", "\n">>
              ELSE SubSeq(s, i, FirstOf(c) - 1) \o <<"\n", "\n">>
                       \o SubSeq(s, LastOf(c) + 1, e))
             \o CollapseRuns(s, e + 1, whole)

\* the description of the record emitted for one run of text, with the
\* newline pass as CollapseRuns describes it
TextRunDescription(whole) ==
    (pc = "done" /\ Len(html) = 1 /\ html[1].kind = "data" /\ Len(result) = 1) =>
        result[1].description =
            Strip(SubSpaces(CollapseRuns(Strip(html[1].data), 1, whole)))

\* C15 (as stated): in the trimmed joined content every maximal run of
\* whitespace with two or more newlines is replaced by exactly two newlines,
\* nothing else of the run surviving, before spaces are collapsed.
C15_WholeRunReplaced == TextRunDescription(TRUE)

\* C15 (amended): in the trimmed joined content, of every maximal run of
\* whitespace with two or more newlines the part from its first to its last
\* newline is replaced by exactly two newlines, before spaces are collapsed;
\* the whitespace of the run before its first and after its last newline
\* stays.
C15_FirstToLastNewlineReplaced == TextRunDescription(FALSE)

C15_Witness ==
    /\ pc = "done"
    /\ html = <<DataTok(<<"x", " ", "\n", "\n", "x">>)>>
    /\ result = <<[headingType |-> "p", section |-> <<>>,
                   description |-> <<"x", " ", "\n", "\n", "x">>]>>

\* a heading start tag has opened the section, no text has reached the
\* heading and the content parts are empty
PendingEmptyHeading(p) == p.current_heading = <<>> /\ p.current_content = <<>>

\* the pass ends in this step with such a pending section
EndsPendingEmpty == pc = "feed" /\ pc' = "done" /\ PendingEmptyHeading(parser)

\* C16 (as stated): when the input ends with a pending section whose heading
\* was opened but received no text and whose content is empty, the finalize
\* of the end of the pass appends a trailing record with empty section and
\* empty description, although a finalize on a heading start tag discards
\* the same pending state.
C16_TrailingEmptyRecord ==
    [][EndsPendingEmpty =>
          /\ Len(result') = Len(parser.sections) + 1
          /\ result'[Len(result')].section = <<>>
          /\ result'[Len(result')].description = <<>>
          /\ SaveSection(parser).sections = parser.sections]_vars

\* C16 (amended): in that case the finalize of the end of the pass appends
\* no record, the pending state is discarded exactly as by a finalize on a
\* heading start tag.
C16_PendingEmptyDiscarded ==
    [][EndsPendingEmpty =>
          /\ result' = parser.sections
          /\ parser'.sections = parser.sections
          /\ SaveSection(parser).sections = parser.sections]_vars

C16_Witness ==
    /\ pc = "done"
    /\ html = <<StartTok("h1", <<>>), DataTok(<<"x">>), StartTok("h2", <<>>)>>
    /\ parser.in_heading
    /\ result = <<[headingType |-> "h1", section |-> <<"x">>, description |-> <<>>]>>

\* a tag the handlers have no branch for
Structural(tag) == tag \notin HeadingTags \cup preserve_tags \cup {"br"}

\* everything the handlers keep is the same after this step
ParserStateUnchanged ==
    /\ parser'.sections = parser.sections
    /\ parser'.current_heading = parser.current_heading
    /\ parser'.current_heading_type = parser.current_heading_type
    /\ parser'.current_content = parser.current_content
    /\ parser'.in_heading = parser.in_heading
    /\ parser'.tag_stack = parser.tag_stack

ItemOne == <<"I", "t", "e", "m", " ", "o", "n", "e">>

ItemTwo == <<"I", "t", "e", "m", " ", "t", "w", "o">>

\* <ul><li>Item one</li><li>Item two</li></ul>
ListExample ==
    <<StartTok("ul", <<>>), StartTok("li", <<>>), DataTok(ItemOne), EndTok("li"),
      StartTok("li", <<>>), DataTok(ItemTwo), EndTok("li"), EndTok("ul")>>

\* C17: a start tag or end tag that is neither a heading tag, a preserved
\* inline tag nor br leaves sections, heading text and type, content parts,
\* in_heading and tag stack unchanged, so the text nested in such tags is
\* concatenated with no separator or markup: the list example gives the
\* description "Item oneItem two".
C17_StructuralTagsFrame ==
    /\ ParseContent(NewParser, ListExample).result =
           <<[headingType |-> "p", section |-> <<>>,
              description |-> ItemOne \o ItemTwo]>>
    /\ [][((Consumed("start") \/ Consumed("end"))
              /\ Structural(Head(parser.rawdata).tag))
            => ParserStateUnchanged]_vars

C17_Witness ==
    /\ pc = "feed"
    /\ html = <<DataTok(<<"x">>), StartTok("p", <<>>), DataTok(<<"x">>), EndTok("p")>>
    /\ Pos = 5
    /\ parser.current_content = <<<<"x">>, <<"x">>>>

\* the positions before i of the description d that hold the atom
Before(d, i, atom) == {j \in 1..(i - 1) : d[j] = atom}

\* C18: in the description of every emitted record each closing preserved
\* tag is preceded, in that description, by an opening tag of the same name
\* that has not been closed yet; no description has a closing tag whose
\* opening tag went into another record.
C18_ClosingTagsMatched ==
    \A k \in 1..Len(parser.sections) :
       LET d == parser.sections[k].description
       IN  \A i \in 1..Len(d) : \A t \in preserve_tags :
              d[i] = "</" \o t \o ">" =>
                 Cardinality(Before(d, i, "<" \o t))
                    > Cardinality(Before(d, i, "</" \o t \o ">"))

\* C19: a section list returned by a parse_content call is not modified by
\* any later parse_content call on the same instance, the calls that return
\* early on blank input included.
C19_ReturnedListsKept ==
    [][\A k \in 1..Len(mem.returned) :
          mem'.heap[mem.returned[k]] = mem.heap[mem.returned[k]]]_vars

C19_Witness ==
    /\ Len(mem.returned) = 2
    /\ mem.returned[1] # mem.returned[2]
    /\ mem.heap[mem.returned[1]] # <<>>
    /\ mem.heap[mem.returned[2]] # <<>>
    /\ mem.heap[mem.returned[1]] # mem.heap[mem.returned[2]]
    /\ mem.heap[mem.self] = parser.sections

====
